---------------------------- MODULE Spec2Model ----------------------------
(***************************************************************************)
(* A model of the LSP protocol code generator (generator/py_generator.py): *)
(* the type expression compiler, the definition builder, the message       *)
(* compiler, the NameOrderer and the ImportsManager, driven the way        *)
(* generator/generate.py drives them: construct, generate() once, then    *)
(* read the three artifacts.                                               *)
(*                                                                         *)
(* Text is modelled as it is in the program: a Python str is a sequence of *)
(* one-character strings, so that the regular expressions of the source    *)
(* (to_snake_case, the identifier scan) act on characters.  An Optional    *)
(* str is a sequence holding no or one str.                                *)
(***************************************************************************)
EXTENDS Integers, Sequences, FiniteSets, TLC

(***************************************************************************)
(* Characters and the character classes of Python's re module.             *)
(***************************************************************************)
UpperSeq == <<"A","B","C","D","E","F","G","H","I","J","K","L","M",
              "N","O","P","Q","R","S","T","U","V","W","X","Y","Z">>
LowerSeq == <<"a","b","c","d","e","f","g","h","i","j","k","l","m",
              "n","o","p","q","r","s","t","u","v","w","x","y","z">>
DigitSeq == <<"0","1","2","3","4","5","6","7","8","9">>

Range(s) == {s[i] : i \in DOMAIN s}

UpperSet == Range(UpperSeq)
IdentStartSet == Range(UpperSeq) \cup Range(LowerSeq) \cup {"_"}
WordSet == IdentStartSet \cup Range(DigitSeq)

\* [A-Z]
IsUpper(c) == c \in UpperSet
\* [a-zA-Z_]
IsIdentStart(c) == c \in IdentStartSet
\* \w
IsWord(c) == c \in WordSet

\* str.lower() on one character
LowerChar(c) ==
    IF IsUpper(c) THEN LowerSeq[CHOOSE i \in DOMAIN UpperSeq : UpperSeq[i] = c]
    ELSE c

\* str.lower()
Lower(s) == [i \in DOMAIN s |-> LowerChar(s[i])]

\* sep.join(parts)
RECURSIVE Join(_, _)
Join(sep, parts) ==
    IF parts = <<>> THEN <<>>
    ELSE IF Len(parts) = 1 THEN parts[1]
    ELSE parts[1] \o sep \o Join(sep, Tail(parts))

\* str(n) / repr(n) of an int
RECURSIVE NatStr(_)
NatStr(n) ==
    IF n < 10 THEN <<DigitSeq[n + 1]>>
    ELSE NatStr(n \div 10) \o <<DigitSeq[(n % 10) + 1]>>

IntRepr(n) == IF n < 0 THEN <<"-">> \o NatStr(0 - n) ELSE NatStr(n)

\* repr(b) of a bool
BoolRepr(b) == IF b THEN <<"T","r","u","e">> ELSE <<"F","a","l","s","e">>

\* repr(s) of a str of printable ASCII characters: Python quotes with ' unless
\* the text holds a ' and no ", and escapes the backslash and the chosen quote.
RECURSIVE Escape(_, _)
Escape(s, quote) ==
    IF s = <<>> THEN <<>>
    ELSE (IF s[1] = "\\" \/ s[1] = quote THEN <<"\\", s[1]>> ELSE <<s[1]>>)
         \o Escape(Tail(s), quote)

StrRepr(s) ==
    LET quote == IF "'" \in Range(s) /\ ~("\"" \in Range(s)) THEN "\"" ELSE "'"
    IN  <<quote>> \o Escape(s, quote) \o <<quote>>

(***************************************************************************)
(* to_snake_case: re.sub(r"([^A-Z])([A-Z])", r"\1_\2", text).lower().  A   *)
(* match is a character that is not an upper-case letter followed by an    *)
(* upper-case letter; matches cannot overlap, so a "_" goes before every   *)
(* upper-case letter whose predecessor is not one.                         *)
(***************************************************************************)
RECURSIVE SubBoundary(_, _)
SubBoundary(text, i) ==
    IF i > Len(text) THEN <<>>
    ELSE (IF i > 1 /\ IsUpper(text[i]) /\ ~IsUpper(text[i - 1])
          THEN <<"_", text[i]>>
          ELSE <<text[i]>>)
         \o SubBoundary(text, i + 1)

to_snake_case(text) == Lower(SubBoundary(text, 1))

(***************************************************************************)
(* identifier_pattern.findall(text) for re.compile(r"([a-zA-Z_]\w+)"): the  *)
(* non-overlapping matches, left to right.  A match needs a start          *)
(* character AND at least one more word character; it is greedy.           *)
(***************************************************************************)
RECURSIVE WordEnd(_, _)
\* the index of the last character of the run of \w characters starting at i
WordEnd(text, i) ==
    IF i < Len(text) /\ IsWord(text[i + 1]) THEN WordEnd(text, i + 1) ELSE i

RECURSIVE FindAllFrom(_, _, _)
FindAllFrom(text, i, minLen) ==
    IF i > Len(text) THEN <<>>
    ELSE IF ~IsIdentStart(text[i]) THEN FindAllFrom(text, i + 1, minLen)
    ELSE LET end == WordEnd(text, i)
         IN  IF end - i + 1 >= minLen
             THEN <<SubSeq(text, i, end)>> \o FindAllFrom(text, end + 1, minLen)
             ELSE FindAllFrom(text, i + 1, minLen)

identifier_pattern(text) == FindAllFrom(text, 1, 2)

(***************************************************************************)
(* String constants of the source.                                         *)
(***************************************************************************)
S_None      == <<"N","o","n","e">>
S_int       == <<"i","n","t">>
S_float     == <<"f","l","o","a","t">>
S_str       == <<"s","t","r">>
S_bool      == <<"b","o","o","l">>
S_dict      == <<"d","i","c","t">>
S_integer   == <<"i","n","t","e","g","e","r">>
S_decimal   == <<"d","e","c","i","m","a","l">>
S_string    == <<"s","t","r","i","n","g">>
S_boolean   == <<"b","o","o","l","e","a","n">>
S_null      == <<"n","u","l","l">>
S_uinteger  == <<"u","i","n","t","e","g","e","r">>
S_URI       == <<"U","R","I">>
S_DocumentUri == <<"D","o","c","u","m","e","n","t","U","r","i">>
S_RegExp    == <<"R","e","g","E","x","p">>
S_List      == <<"L","i","s","t">>
S_Dict      == <<"D","i","c","t">>
S_Union     == <<"U","n","i","o","n">>
S_Tuple     == <<"T","u","p","l","e">>
S_Literal   == <<"L","i","t","e","r","a","l">>
S_TypeAlias == <<"T","y","p","e","A","l","i","a","s">>
S_TypedDict == <<"T","y","p","e","d","D","i","c","t">>
S_NotRequired == <<"N","o","t","R","e","q","u","i","r","e","d">>
S_Enum      == <<"E","n","u","m">>
S_LSPAny    == <<"L","S","P","A","n","y">>
S_LSPObject == <<"L","S","P","O","b","j","e","c","t">>
S_LSPArray  == <<"L","S","P","A","r","r","a","y">>
S_self      == <<"s","e","l","f">>
S_context   == <<"c","o","n","t","e","x","t">>
S_params    == <<"p","a","r","a","m","s">>
S_result    == <<"r","e","s","u","l","t">>
S_method    == <<"m","e","t","h","o","d">>
S_params_or_result == S_params \o <<"_","o","r","_">> \o S_result
S_handle    == <<"h","a","n","d","l","e">>
S_handle_   == S_handle \o <<"_">>
S_request   == <<"r","e","q","u","e","s","t">>
S_notify    == <<"n","o","t","i","f","y">>
S_CommaSp   == <<",", " ">>

(***************************************************************************)
(* The metamodel's Type: a record tagged by kind (metaModel_schema.py).    *)
(* NoType stands for Python's None where a Type is optional.               *)
(***************************************************************************)
NoType           == [kind |-> "none"]
BaseT(n)         == [kind |-> "base", name |-> n]
RefT(n)          == [kind |-> "reference", name |-> n]
ArrayT(e)        == [kind |-> "array", element |-> e]
MapT(k, v)       == [kind |-> "map", key |-> k, value |-> v]
AndT(items)      == [kind |-> "and", items |-> items]
OrT(items)       == [kind |-> "or", items |-> items]
TupleT(items)    == [kind |-> "tuple", items |-> items]
\* a StructureLiteralType; value is the StructureLiteral's property list
LiteralT(props)  == [kind |-> "literal", properties |-> props]
StringLitT(v)    == [kind |-> "stringLiteral", value |-> v]
IntegerLitT(v)   == [kind |-> "integerLiteral", value |-> v]
BooleanLitT(v)   == [kind |-> "booleanLiteral", value |-> v]

Property(n, t, opt) == [name |-> n, type |-> t, optional |-> opt]

(***************************************************************************)
(* The outcome of a call that may raise: ok with a value, or the name of   *)
(* the exception.                                                          *)
(***************************************************************************)
Ok(v)      == [ok |-> TRUE, val |-> v, err |-> "none"]
Raise(e)   == [ok |-> FALSE, val |-> <<>>, err |-> e]

\* the outcomes of a list comprehension [f(x) for x in xs]: the list of the
\* values, or the first exception
RECURSIVE Collect(_)
Collect(outcomes) ==
    IF outcomes = <<>> THEN Ok(<<>>)
    ELSE IF ~outcomes[1].ok THEN outcomes[1]
    ELSE LET rest == Collect(Tail(outcomes))
         IN  IF rest.ok THEN Ok(<<outcomes[1].val>> \o rest.val) ELSE rest

Bracket(head, inner) == head \o <<"[">> \o inner \o <<"]">>

(***************************************************************************)
(* CodeGenerator.type_ on a Type, and the per-kind methods it dispatches   *)
(* to.                                                                     *)
(***************************************************************************)
basetype(tp) ==
    IF tp.name = S_integer THEN S_int
    ELSE IF tp.name = S_decimal THEN S_float
    ELSE IF tp.name = S_string THEN S_str
    ELSE IF tp.name = S_boolean THEN S_bool
    ELSE IF tp.name = S_null THEN S_None
    ELSE tp.name

referencetype(tp) == tp.name

stringliteraltype(tp) == Bracket(S_Literal, StrRepr(tp.value))

integerliteraltype(tp) == Bracket(S_Literal, IntRepr(tp.value))

booleanliteraltype(tp) == Bracket(S_Literal, BoolRepr(tp.value))

RECURSIVE type_(_)

\* CodeGenerator.property: the Variable of a Property
property(p) ==
    LET t == type_(p.type)
    IN  IF ~t.ok THEN t
        ELSE Ok([cls |-> "Variable", name |-> p.name,
                 annotation |-> <<IF p.optional THEN Bracket(S_NotRequired, t.val)
                                  ELSE t.val>>,
                 value |-> <<>>])

\* "\n".join(xs) where xs are Variables: str.join raises TypeError on the
\* first item that is not a str; the join of no items is "".
structureliteral(props) ==
    LET vars == Collect([i \in DOMAIN props |-> property(props[i])])
    IN  IF ~vars.ok THEN vars
        ELSE IF vars.val = <<>> THEN Ok(<<>>)
        ELSE Raise("TypeError")

literaltype(tp) ==
    LET v == structureliteral(tp.properties)
    IN  IF ~v.ok THEN v ELSE Ok(Bracket(S_Literal, StrRepr(v.val)))

arraytype(tp) ==
    LET e == type_(tp.element)
    IN  IF ~e.ok THEN e ELSE Ok(Bracket(S_List, e.val))

maptype(tp) ==
    LET k == type_(tp.key)
        v == type_(tp.value)
    IN  IF ~k.ok THEN k
        ELSE IF ~v.ok THEN v
        ELSE Ok(Bracket(S_Dict, k.val \o S_CommaSp \o v.val))

\* andtype, ortype, tupletype: head[", ".join(type_(c) for c in items)]
itemstype(head, tp) ==
    LET cs == Collect([i \in DOMAIN tp.items |-> type_(tp.items[i])])
    IN  IF ~cs.ok THEN cs ELSE Ok(Bracket(head, Join(S_CommaSp, cs.val)))

andtype(tp) == itemstype(S_Union, tp)

ortype(tp) == itemstype(S_Union, tp)

tupletype(tp) == itemstype(S_Tuple, tp)

type_(tp) ==
    CASE tp.kind = "none"           -> Ok(S_None)
      [] tp.kind = "base"           -> Ok(basetype(tp))
      [] tp.kind = "reference"      -> Ok(referencetype(tp))
      [] tp.kind = "array"          -> arraytype(tp)
      [] tp.kind = "map"            -> maptype(tp)
      [] tp.kind = "and"            -> andtype(tp)
      [] tp.kind = "or"             -> ortype(tp)
      [] tp.kind = "tuple"          -> tupletype(tp)
      [] tp.kind = "literal"        -> literaltype(tp)
      [] tp.kind = "stringLiteral"  -> Ok(stringliteraltype(tp))
      [] tp.kind = "integerLiteral" -> Ok(integerliteraltype(tp))
      [] tp.kind = "booleanLiteral" -> Ok(booleanliteraltype(tp))

(***************************************************************************)
(* The code model of the source: Variable, Argument, Function, Class.      *)
(***************************************************************************)
\* Variable(name, annotation, value); __post_init__ refuses a Variable that
\* has neither an annotation nor a value
Variable(n, ann, val) ==
    IF ann = <<>> /\ val = <<>> THEN Raise("ValueError")
    ELSE [cls |-> "Variable", name |-> n, annotation |-> ann, value |-> val]

Argument(n, ann) == [name |-> n, annotation |-> ann]

Function(n, args, ann, body) ==
    [name |-> n, arguments |-> args, annotation |-> ann, body |-> body]

\* a Class; the lists a Class is built without (None) are empty
ClassOf(n, parents, variables, methods) ==
    [cls |-> "Class", name |-> n, parents |-> parents, variables |-> variables,
     methods |-> methods]

Class(n, parents, variables) == ClassOf(n, parents, variables, <<>>)

(***************************************************************************)
(* Definition builder.                                                     *)
(***************************************************************************)
\* CodeGenerator.enumeration; an entry's value is a str or an int
EntryRepr(v) == IF v.kind = "str" THEN StrRepr(v.v) ELSE IntRepr(v.v)

enumeration(tp) ==
    Class(tp.name,
          <<basetype(tp.type), S_Enum>>,
          [i \in DOMAIN tp.values |->
              Variable(tp.values[i].name, <<>>, <<EntryRepr(tp.values[i].value)>>)])

\* re.sub(r"\b(LSPObject|LSPArray)\b", r'"\1"', typ)
StartsAt(text, i, word) ==
    /\ i + Len(word) - 1 <= Len(text)
    /\ SubSeq(text, i, i + Len(word) - 1) = word
    /\ (i = 1 \/ ~IsWord(text[i - 1]))
    /\ (i + Len(word) - 1 = Len(text) \/ ~IsWord(text[i + Len(word)]))

RECURSIVE QuoteForward(_, _)
QuoteForward(text, i) ==
    IF i > Len(text) THEN <<>>
    ELSE IF StartsAt(text, i, S_LSPObject)
         THEN <<"\"">> \o S_LSPObject \o <<"\"">>
              \o QuoteForward(text, i + Len(S_LSPObject))
    ELSE IF StartsAt(text, i, S_LSPArray)
         THEN <<"\"">> \o S_LSPArray \o <<"\"">>
              \o QuoteForward(text, i + Len(S_LSPArray))
    ELSE <<text[i]>> \o QuoteForward(text, i + 1)

\* CodeGenerator.typealias
typealias(tp) ==
    LET typ == type_(tp.type)
    IN  IF ~typ.ok THEN typ
        ELSE Ok(Variable(tp.name, <<S_TypeAlias>>, <<QuoteForward(typ.val, 1)>>))

\* self._structure_maps = {i.name: i for i in model.structures}: the LAST
\* structure of a name; 0 when the name is no key (KeyError)
StructureIndex(structs, n) ==
    LET hits == {i \in DOMAIN structs : structs[i].name = n}
    IN  IF hits = {} THEN 0 ELSE CHOOSE i \in hits : \A j \in hits : j <= i

\* CodeGenerator.pull_reference
pull_reference(structs, mixin) == StructureIndex(structs, mixin.name)

\* The mixin loop of CodeGenerator.structure, from mixin k on.  `properties`
\* is the list the loop extends; when tp.properties is not empty it IS
\* tp.properties (the same list object), so extending it changes the
\* Structure of the model, and a later reader of that Structure (a structure
\* that mixes it in, itself included) sees the extended list.
RECURSIVE ExtendMixins(_, _, _, _, _)
ExtendMixins(structs, idx, k, properties, aliased) ==
    IF k > Len(structs[idx].mixins) THEN [ok |-> TRUE, err |-> "none", properties |-> properties]
    ELSE LET j == pull_reference(structs, structs[idx].mixins[k])
             refprops == IF j = idx /\ aliased THEN properties
                         ELSE structs[j].properties
         IN  IF j = 0
             THEN [ok |-> FALSE, err |-> "KeyError", properties |-> properties]
             ELSE ExtendMixins(structs, idx, k + 1, properties \o refprops, aliased)

\* parents without the TypedDict default
structure_parents_no_default(tp) ==
    Collect([i \in DOMAIN tp.extends |-> type_(tp.extends[i])])

structure_parents(tp) ==
    IF tp.extends # <<>>
    THEN Collect([i \in DOMAIN tp.extends |-> type_(tp.extends[i])])
    ELSE Ok(<<S_TypedDict>>)

\* CodeGenerator.structure on the idx-th structure: the outcome, the Class,
\* and the model's structures as the call leaves them.
structure(structs, idx) ==
    LET tp == structs[idx]
        parents == structure_parents(tp)
        aliased == tp.properties # <<>>
        mixed == ExtendMixins(structs, idx, 1, tp.properties, aliased)
        after == IF aliased
                 THEN [structs EXCEPT ![idx].properties = mixed.properties]
                 ELSE structs
        variables == Collect([i \in DOMAIN mixed.properties |->
                                 property(mixed.properties[i])])
    IN  IF ~parents.ok
        THEN [ok |-> FALSE, err |-> parents.err, structs |-> structs, code |-> <<>>]
        ELSE IF ~mixed.ok
        THEN [ok |-> FALSE, err |-> mixed.err, structs |-> after, code |-> <<>>]
        ELSE IF ~variables.ok
        THEN [ok |-> FALSE, err |-> variables.err, structs |-> after, code |-> <<>>]
        ELSE [ok |-> TRUE, err |-> "none", structs |-> after,
              code |-> Class(tp.name, parents.val, variables.val)]

(***************************************************************************)
(* Message compiler.  A role's dispatch table (a dict, which keeps         *)
(* insertion order) is a sequence of <<key, value>> entries with distinct  *)
(* keys.                                                                   *)
(***************************************************************************)
HasKey(map, k) == \E i \in DOMAIN map : map[i][1] = k

\* map[k] = v
DictSet(map, k, v) ==
    IF HasKey(map, k)
    THEN [i \in DOMAIN map |-> IF map[i][1] = k THEN <<k, v>> ELSE map[i]]
    ELSE Append(map, <<k, v>>)

\* map[k], for a key of the map
DictGet(map, k) == map[CHOOSE i \in DOMAIN map : map[i][1] = k][2]

Keys(map) == {map[i][1] : i \in DOMAIN map}

SendBody(call, method) ==
    S_self \o <<".">> \o call \o <<"(">> \o S_method \o <<"=">> \o StrRepr(method)
    \o S_CommaSp \o S_params \o <<"=">> \o S_params \o <<")">>

handle_name(tp) == S_handle_ \o to_snake_case(tp.typeName)

\* the sender of a request or a notification
sender_function(tp, call, params) ==
    Function(to_snake_case(tp.typeName),
             <<Argument(S_self, <<>>), Argument(S_params, <<params>>)>>,
             <<S_None>>,
             <<SendBody(call, tp.method)>>)

handle_result_function(tp, result) ==
    Function(handle_name(tp),
             <<Argument(S_self, <<>>), Argument(S_context, <<S_dict>>),
               Argument(S_result, <<result>>)>>,
             <<S_None>>,
             <<>>)

\* a request handler stub that loses its return annotation
handle_request_function_untyped(tp, params, result) ==
    Function(handle_name(tp),
             <<Argument(S_self, <<>>), Argument(S_context, <<S_dict>>),
               Argument(S_params, <<params>>)>>,
             <<S_None>>,
             <<>>)

handle_request_function(tp, params, result) ==
    Function(handle_name(tp),
             <<Argument(S_self, <<>>), Argument(S_context, <<S_dict>>),
               Argument(S_params, <<params>>)>>,
             <<result>>,
             <<>>)

handle_notification_function(tp, params) ==
    Function(handle_name(tp),
             <<Argument(S_self, <<>>), Argument(S_context, <<S_dict>>),
               Argument(S_params, <<params>>)>>,
             <<S_None>>,
             <<>>)

ToServer(tp) == tp.messageDirection \in {"clientToServer", "both"}
ToClient(tp) == tp.messageDirection \in {"serverToClient", "both"}

\* The dispatcher state a request or a notification works on: the methods
\* and the dispatch table of each role.
Roles(sm, cm, shm, chm) ==
    [server_methods |-> sm, client_methods |-> cm,
     server_handle_map |-> shm, client_handle_map |-> chm]

\* a first branch that registers the handler with the receiving role only
request_to_server_receiver_only(r, tp, send, hres, hreq) ==
    Roles(Append(r.server_methods, hreq),
          r.client_methods \o <<send, hres>>,
          DictSet(r.server_handle_map, tp.method, handle_name(tp)),
          r.client_handle_map)

\* the first branch of CodeGenerator.request (client sends, server handles)
request_to_server(r, tp, send, hres, hreq) ==
    Roles(Append(r.server_methods, hreq),
          r.client_methods \o <<send, hres>>,
          DictSet(r.server_handle_map, tp.method, handle_name(tp)),
          DictSet(r.client_handle_map, tp.method, handle_name(tp)))

\* the second branch of CodeGenerator.request (server sends, client handles)
request_to_client(r, tp, send, hres, hreq) ==
    Roles(r.server_methods \o <<send, hres>>,
          Append(r.client_methods, hreq),
          DictSet(r.server_handle_map, tp.method, handle_name(tp)),
          DictSet(r.client_handle_map, tp.method, handle_name(tp)))

\* CodeGenerator.request: the outcome and the dispatcher state it leaves
request(r, tp) ==
    LET params == type_(tp.params)
        result == type_(tp.result)
        send == sender_function(tp, S_request, params.val)
        hres == handle_result_function(tp, result.val)
        hreq == handle_request_function(tp, params.val, result.val)
        r1 == IF ToServer(tp) THEN request_to_server(r, tp, send, hres, hreq) ELSE r
        r2 == IF ToClient(tp) THEN request_to_client(r1, tp, send, hres, hreq) ELSE r1
    IN  IF ~params.ok THEN [ok |-> FALSE, err |-> params.err, roles |-> r]
        ELSE IF ~result.ok THEN [ok |-> FALSE, err |-> result.err, roles |-> r]
        ELSE [ok |-> TRUE, err |-> "none", roles |-> r2]

\* the first branch of CodeGenerator.notification
notification_to_server(r, tp, send, hnot) ==
    Roles(Append(r.server_methods, hnot),
          Append(r.client_methods, send),
          DictSet(r.server_handle_map, tp.method, handle_name(tp)),
          r.client_handle_map)

\* a second branch that forgets the client's dispatch entry
notification_to_client_unregistered(r, tp, send, hnot) ==
    Roles(Append(r.server_methods, send),
          Append(r.client_methods, hnot),
          r.server_handle_map,
          r.client_handle_map)

\* the second branch of CodeGenerator.notification
notification_to_client(r, tp, send, hnot) ==
    Roles(Append(r.server_methods, send),
          Append(r.client_methods, hnot),
          r.server_handle_map,
          DictSet(r.client_handle_map, tp.method, handle_name(tp)))

\* CodeGenerator.notification
notification(r, tp) ==
    LET params == type_(tp.params)
        send == sender_function(tp, S_notify, params.val)
        hnot == handle_notification_function(tp, params.val)
        r1 == IF ToServer(tp) THEN notification_to_server(r, tp, send, hnot) ELSE r
        r2 == IF ToClient(tp) THEN notification_to_client(r1, tp, send, hnot) ELSE r1
    IN  IF ~params.ok THEN [ok |-> FALSE, err |-> params.err, roles |-> r]
        ELSE [ok |-> TRUE, err |-> "none", roles |-> r2]

(***************************************************************************)
(* CodeGenerator.generate: the five loops, in order.  An exception ends    *)
(* the call where it is raised and leaves what was built so far.           *)
(***************************************************************************)
\* how generate() ends: the outcome, and what it leaves in self.model,
\* self._types and the dispatchers
Generated(ok, err, m, types, r) ==
    [ok |-> ok, err |-> err, model |-> m, types |-> types, roles |-> r]

\* for notification in self.model.notifications, then _is_generated = True
RECURSIVE GenNotifications(_, _, _, _)
GenNotifications(m, i, types, r) ==
    IF i > Len(m.notifications) THEN Generated(TRUE, "none", m, types, r)
    ELSE LET q == notification(r, m.notifications[i])
         IN  IF ~q.ok THEN Generated(FALSE, q.err, m, types, q.roles)
             ELSE GenNotifications(m, i + 1, types, q.roles)

\* for request in self.model.requests, then the notifications
RECURSIVE GenRequests(_, _, _, _)
GenRequests(m, i, types, r) ==
    IF i > Len(m.requests) THEN GenNotifications(m, 1, types, r)
    ELSE LET q == request(r, m.requests[i])
         IN  IF ~q.ok THEN Generated(FALSE, q.err, m, types, q.roles)
             ELSE GenRequests(m, i + 1, types, q.roles)

\* for typealias in self.model.typeAliases, then the requests
RECURSIVE GenTypeAliases(_, _, _, _)
GenTypeAliases(m, i, types, r) ==
    IF i > Len(m.typeAliases) THEN GenRequests(m, 1, types, r)
    ELSE LET a == typealias(m.typeAliases[i])
         IN  IF ~a.ok THEN Generated(FALSE, a.err, m, types, r)
             ELSE GenTypeAliases(m, i + 1, Append(types, a.val), r)

\* for structure in self.model.structures, then the type aliases; a
\* structure's call may have extended property lists of the model
RECURSIVE GenStructures(_, _, _, _)
GenStructures(m, i, types, r) ==
    IF i > Len(m.structures) THEN GenTypeAliases(m, 1, types, r)
    ELSE LET s == structure(m.structures, i)
         IN  IF ~s.ok
             THEN Generated(FALSE, s.err, [m EXCEPT !.structures = s.structs], types, r)
             ELSE GenStructures([m EXCEPT !.structures = s.structs], i + 1,
                                Append(types, s.code), r)

\* generate() on metamodel m, generator lists types0 and dispatcher state r0:
\* the enumerations, then the other four loops
generate(m, types0, r0) ==
    GenStructures(m, 1,
                  types0 \o [i \in DOMAIN m.enumerations |->
                               enumeration(m.enumerations[i])],
                  r0)

(***************************************************************************)
(* NameOrderer.                                                            *)
(***************************************************************************)
InSeq(x, s) == \E i \in DOMAIN s : s[i] = x

\* self.name_map = {tp.name: tp for tp in names}: the index of the LAST
\* definition of the name, 0 when name_map.get(n) is None
NameMapGet(names, n) ==
    LET hits == {i \in DOMAIN names : names[i].name = n}
    IN  IF hits = {} THEN 0 ELSE CHOOSE i \in hits : \A j \in hits : j <= i

(***************************************************************************)
(* define_name.  `defined` is self.defined_names; `depth` counts the        *)
(* define_name frames on the stack and `limit` is how many the interpreter *)
(* allows before it raises RecursionError (the frame that would exceed it  *)
(* raises before it changes anything).  The result is defined_names as the *)
(* call leaves it, and whether the call raised.                            *)
(*                                                                         *)
(* The parent loop calls define_name bare: an exception leaves the frame.  *)
(* The annotation loops call it under try/except RecursionError: pass.     *)
(*                                                                         *)
(* identifier_pattern.findall gives the same tokens for the same text in   *)
(* whatever frame it is called: the orderer holds them in `scans`, for     *)
(* every definition the tokens of the texts define_name scans in it, in    *)
(* the order of the loops.                                                 *)
(***************************************************************************)
\* identifier_pattern.findall(annotation) for the variables of a class that
\* have an annotation, one after the other
RECURSIVE ScanVariables(_, _)
ScanVariables(variables, k) ==
    IF k > Len(variables) THEN <<>>
    ELSE IF variables[k].annotation = <<>> \/ variables[k].annotation = << <<>> >>
    THEN ScanVariables(variables, k + 1)
    ELSE identifier_pattern(variables[k].annotation[1])
           \o ScanVariables(variables, k + 1)

\* the tokens define_name goes through in each definition
RECURSIVE ScanNames(_, _)
ScanNames(names, i) ==
    IF i > Len(names) THEN <<>>
    ELSE << IF names[i].cls = "Class" THEN ScanVariables(names[i].variables, 1)
            ELSE IF names[i].annotation = <<S_TypeAlias>>
            THEN identifier_pattern(names[i].value[1])
            ELSE <<>> >>
           \o ScanNames(names, i + 1)

\* NameOrderer(names)
NameOrderer(names) == [names |-> names, scans |-> ScanNames(names, 1)]

RECURSIVE define_name(_, _, _, _, _)
RECURSIVE DefineParents(_, _, _, _, _, _)
RECURSIVE DefineTokens(_, _, _, _, _, _)

DefineParents(self, parents, k, defined, depth, limit) ==
    IF k > Len(parents) THEN [raised |-> FALSE, defined |-> defined]
    ELSE IF InSeq(parents[k], defined) \/ NameMapGet(self.names, parents[k]) = 0
    THEN DefineParents(self, parents, k + 1, defined, depth, limit)
    ELSE LET r == define_name(self, NameMapGet(self.names, parents[k]),
                              defined, depth + 1, limit)
         IN  IF r.raised THEN r
             ELSE DefineParents(self, parents, k + 1, r.defined, depth, limit)

DefineTokens(self, tokens, k, defined, depth, limit) ==
    IF k > Len(tokens) THEN defined
    ELSE IF InSeq(tokens[k], defined) \/ NameMapGet(self.names, tokens[k]) = 0
    THEN DefineTokens(self, tokens, k + 1, defined, depth, limit)
    ELSE DefineTokens(self, tokens, k + 1,
                      define_name(self, NameMapGet(self.names, tokens[k]),
                                  defined, depth + 1, limit).defined,
                      depth, limit)

define_name(self, idx, defined, depth, limit) ==
    LET name == self.names[idx]
    IN  IF depth > limit THEN [raised |-> TRUE, defined |-> defined]
        ELSE IF name.cls = "Class"
        THEN LET p == DefineParents(self, name.parents, 1, defined, depth, limit)
             IN  IF p.raised THEN p
                 ELSE [raised |-> FALSE,
                       defined |-> Append(DefineTokens(self, self.scans[idx], 1,
                                                       p.defined, depth, limit),
                                          name.name)]
        ELSE IF name.annotation = <<S_TypeAlias>>
        THEN [raised |-> FALSE,
              defined |-> Append(DefineTokens(self, self.scans[idx], 1, defined,
                                              depth, limit),
                                 name.name)]
        ELSE [raised |-> FALSE, defined |-> Append(defined, name.name)]

\* the first loop of ordered_names
RECURSIVE DefineAll(_, _, _, _)
DefineAll(self, i, defined, limit) ==
    IF i > Len(self.names) THEN [raised |-> FALSE, defined |-> defined]
    ELSE LET r == define_name(self, i, defined, 1, limit)
         IN  IF r.raised THEN r ELSE DefineAll(self, i + 1, r.defined, limit)

\* the second loop of ordered_names: the first occurrence of each name
RECURSIVE Dedup(_)
Dedup(s) ==
    IF s = <<>> THEN <<>>
    ELSE LET front == Dedup(SubSeq(s, 1, Len(s) - 1))
         IN  IF InSeq(s[Len(s)], front) THEN front ELSE Append(front, s[Len(s)])

\* the ordered definitions, last first
ordered_names_reversed(self, limit) ==
    LET d == DefineAll(self, 1, <<>>, limit)
        order == Dedup(d.defined)
    IN  IF d.raised THEN Raise("RecursionError")
        ELSE Ok([i \in DOMAIN order |->
                   self.names[NameMapGet(self.names, order[Len(order) + 1 - i])]])

\* NameOrderer(names).ordered_names(): the ordered definitions, or
\* RecursionError
ordered_names(self, limit) ==
    LET d == DefineAll(self, 1, <<>>, limit)
        order == Dedup(d.defined)
    IN  IF d.raised THEN Raise("RecursionError")
        ELSE Ok([i \in DOMAIN order |->
                   self.names[NameMapGet(self.names, order[i])]])

(***************************************************************************)
(* ImportsManager.resolve.                                                 *)
(***************************************************************************)
\* the body of every loop of resolve, over a list of tokens: a token that is
\* not yet imported and is a defined name is appended
RECURSIVE ScanTokens(_, _, _, _)
ScanTokens(tokens, k, names, imports) ==
    IF k > Len(tokens) THEN imports
    ELSE ScanTokens(tokens, k + 1, names,
                    IF ~InSeq(tokens[k], imports) /\ tokens[k] \in names
                    THEN Append(imports, tokens[k])
                    ELSE imports)

\* an Optional[str] annotation: its identifier tokens, none when None or ""
AnnotationTokens(ann) ==
    IF ann = <<>> THEN <<>> ELSE identifier_pattern(ann[1])

\* the lists of a nested loop, in the order the loop meets their items
RECURSIVE Flatten(_)
Flatten(lists) ==
    IF lists = <<>> THEN <<>> ELSE Head(lists) \o Flatten(Tail(lists))

\* the tokens the loops over one method meet: each argument's annotation,
\* then the return annotation
MethodTokens(func) ==
    Flatten([a \in DOMAIN func.arguments |->
               AnnotationTokens(func.arguments[a].annotation)])
    \o AnnotationTokens(func.annotation)

\* the tokens the loops over one consumer meet: a Class's parents, its
\* variables' annotations and its methods; a Variable's annotation and, for
\* a TypeAlias, its value
ConsumerTokens(name) ==
    IF name.cls = "Class"
    THEN name.parents
         \o Flatten([v \in DOMAIN name.variables |->
                       AnnotationTokens(name.variables[v].annotation)])
         \o Flatten([f \in DOMAIN name.methods |-> MethodTokens(name.methods[f])])
    ELSE AnnotationTokens(name.annotation)
         \o (IF name.annotation = <<S_TypeAlias>>
             THEN identifier_pattern(name.value[1]) ELSE <<>>)

\* ImportsManager(consumer_names, defined_names).resolve(): every loop has
\* the same body, so the result is that body run over the tokens in order
resolve(consumer_names, defined_names) ==
    ScanTokens(Flatten([c \in DOMAIN consumer_names |->
                          ConsumerTokens(consumer_names[c])]),
               1, {defined_names[i].name : i \in DOMAIN defined_names}, <<>>)

(***************************************************************************)
(* The artifacts: types_code, server_code, client_code.  What a read       *)
(* returns is modelled by the objects it renders (get_code is a function   *)
(* of them): the ordered definitions, or the import list and the class.    *)
(***************************************************************************)
base_aliases ==
    <<Variable(S_uinteger, <<S_TypeAlias>>, <<S_int>>),
      Variable(S_URI, <<S_TypeAlias>>, <<S_str>>),
      Variable(S_DocumentUri, <<S_TypeAlias>>, <<S_str>>),
      Variable(S_RegExp, <<S_TypeAlias>>, <<S_str>>)>>

S_handle_map == S_handle \o <<"_","m","a","p">>
S_return     == <<"r","e","t","u","r","n">>

\* f"{k!r}: self.{v}"
HandleMapItem(entry) ==
    StrRepr(entry[1]) \o <<":", " ">> \o S_self \o <<".">> \o entry[2]

\* the body of the generated handle(): the dispatch table as a dict display,
\* then the lookup and the call
HandleBody(map) ==
    S_handle_map \o <<" ", "=", " ", "{", "\n", "\t">>
    \o Join(<<",", "\n", "\t">>, [i \in DOMAIN map |-> HandleMapItem(map[i])])
    \o <<"\n", "\t", "}", "\n">>
    \o S_return \o <<" ">> \o S_handle_map \o <<"[">> \o S_method \o <<"]", "(">>
    \o S_params_or_result \o <<")", "\n">>

handle_function(map) ==
    Function(S_handle,
             <<Argument(S_self, <<>>), Argument(S_method, <<S_str>>),
               Argument(S_params_or_result, <<S_LSPAny>>)>>,
             <<S_None>>,
             <<HandleBody(map)>>)

(***************************************************************************)
(* The emitted dispatcher class as Python runs it.  server.py and          *)
(* client.py hold one class each, Server and Client; its methods are the   *)
(* functions of the role's method list, in that order.                     *)
(***************************************************************************)
S___init__ == <<"_","_","i","n","i","t","_","_">>
S___new__  == <<"_","_","n","e","w","_","_">>
S___getattr__ == <<"_","_","g","e","t","a","t","t","r","_","_">>
S___getattribute__ ==
    <<"_","_","g","e","t","a","t","t","r","i","b","u","t","e","_","_">>

\* the class body defines a function under the name
Defines(methods, name) == \E k \in DOMAIN methods : methods[k].name = name

\* of the functions the class body defines under the name, the last one
LastDef(methods, name) ==
    methods[CHOOSE k \in DOMAIN methods :
              /\ methods[k].name = name
              /\ \A j \in DOMAIN methods : methods[j].name = name => j <= k]

\* the method a sender calls: self.request(..) or self.notify(..)
Callee(f) ==
    LET prefix == S_self \o <<".">> \o S_request \o <<"(">>
    IN  IF Len(f.body[1]) >= Len(prefix) /\ SubSeq(f.body[1], 1, Len(prefix)) = prefix
        THEN S_request
        ELSE S_notify

\* dir(object()) and what a class statement adds: the names every instance
\* has without the class body defining them
ObjectNames ==
    {<<"_","_","c","l","a","s","s","_","_">>,
     <<"_","_","d","e","l","a","t","t","r","_","_">>,
     <<"_","_","d","i","c","t","_","_">>,
     <<"_","_","d","i","r","_","_">>,
     <<"_","_","d","o","c","_","_">>,
     <<"_","_","e","q","_","_">>,
     <<"_","_","f","o","r","m","a","t","_","_">>,
     <<"_","_","g","e","_","_">>,
     <<"_","_","g","e","t","a","t","t","r","i","b","u","t","e","_","_">>,
     <<"_","_","g","e","t","s","t","a","t","e","_","_">>,
     <<"_","_","g","t","_","_">>,
     <<"_","_","h","a","s","h","_","_">>,
     <<"_","_","i","n","i","t","_","_">>,
     <<"_","_","i","n","i","t","_","s","u","b","c","l","a","s","s","_","_">>,
     <<"_","_","l","e","_","_">>,
     <<"_","_","l","t","_","_">>,
     <<"_","_","m","o","d","u","l","e","_","_">>,
     <<"_","_","n","e","_","_">>,
     <<"_","_","n","e","w","_","_">>,
     <<"_","_","r","e","d","u","c","e","_","_">>,
     <<"_","_","r","e","d","u","c","e","_","e","x","_","_">>,
     <<"_","_","r","e","p","r","_","_">>,
     <<"_","_","s","e","t","a","t","t","r","_","_">>,
     <<"_","_","s","i","z","e","o","f","_","_">>,
     <<"_","_","s","t","r","_","_">>,
     <<"_","_","s","u","b","c","l","a","s","s","h","o","o","k","_","_">>,
     <<"_","_","w","e","a","k","r","e","f","_","_">>}

\* self.<name> on an instance of the emitted class: the last function the
\* class body defines under the name, or what object has under the name
\* (no function of the class body; it stands here as a function without
\* parameters and body).  A method named __getattribute__ or
\* __getattr__ can only be a sender (a handler is named handle_..): the
\* first one is run for every name and the second one for a name the class
\* does not define, with the name as params, and its body asks for
\* self.request or self.notify in turn.  That never ends where the same
\* method answers again, and ends in a call with keywords no emitted
\* method takes where the class defines the callee.
Attribute(methods, name) ==
    IF Defines(methods, S___getattribute__) THEN Raise("RecursionError")
    ELSE IF Defines(methods, name) THEN Ok(LastDef(methods, name))
    ELSE IF name \in ObjectNames
    THEN Ok(Function(name, <<Argument(S_self, <<>>)>>, <<>>, <<>>))
    ELSE IF ~Defines(methods, S___getattr__) THEN Raise("AttributeError")
    ELSE IF Defines(methods, Callee(LastDef(methods, S___getattr__)))
    THEN Raise("TypeError")
    ELSE Raise("RecursionError")

\* a call of a bound method with positional arguments: the arguments are
\* bound to the parameters that follow self, one for one
Call(f, args) ==
    IF Len(f.arguments) - 1 # Len(args) THEN Raise("TypeError")
    ELSE Ok([handler |-> f.name,
             bound |-> [i \in DOMAIN args |-> <<f.arguments[i + 1].name, args[i]>>]])

\* the first table entry whose self.<handler> raises, or 0
FirstUnbound(methods, map) ==
    IF \A i \in DOMAIN map : Attribute(methods, map[i][2]).ok THEN 0
    ELSE CHOOSE i \in DOMAIN map :
           /\ ~Attribute(methods, map[i][2]).ok
           /\ \A j \in 1..(i - 1) : Attribute(methods, map[j][2]).ok

\* what a call of an emitted method does; map is the table the emitted
\* handle holds.  A handler stub holds a docstring only and returns None.
\* handle evaluates self.<handler> for every entry of its dict display,
\* looks the method up and calls what it finds with params_or_result.  A
\* sender holds self.request(method=.., params=..) or self.notify(..): the
\* class defines no such method unless a message gave a sender that name,
\* and no emitted method takes both keywords.
RECURSIVE Run(_, _, _, _)
Run(methods, map, f, args) ==
    LET bound == Call(f, args)
    IN  IF ~bound.ok \/ f.body = <<>> THEN bound
        ELSE IF f.body = <<HandleBody(map)>>
        THEN IF FirstUnbound(methods, map) # 0
             THEN Attribute(methods, map[FirstUnbound(methods, map)][2])
             ELSE IF ~HasKey(map, args[1]) THEN Raise("KeyError")
             ELSE Run(methods, map, Attribute(methods, DictGet(map, args[1])).val,
                      <<args[2]>>)
        ELSE IF Attribute(methods, Callee(f)).ok THEN Raise("TypeError")
        ELSE Attribute(methods, Callee(f))

\* Server().handle(method, params_or_result), or Client(), in a program that
\* imported the emitted module: `imported` is what the import statement
\* gave, the class (the role's Class, with its methods) or the exception it
\* raised, and map is the table the emitted handle holds.  The class is
\* called without arguments, which a sender named __init__ or __new__ does
\* not accept (it wants params); then comes self.handle and the call of it.
handle(imported, map, method, params_or_result) ==
    IF ~imported.ok THEN imported
    ELSE IF \/ Defines(imported.val.methods, S___init__)
            \/ Defines(imported.val.methods, S___new__)
    THEN Raise("TypeError")
    ELSE IF ~Attribute(imported.val.methods, S_handle).ok
    THEN Attribute(imported.val.methods, S_handle)
    ELSE Run(imported.val.methods, map,
             Attribute(imported.val.methods, S_handle).val,
             <<method, params_or_result>>)

S_Server == <<"S","e","r","v","e","r">>
S_Client == <<"C","l","i","e","n","t">>

(***************************************************************************)
(* utils.py: default values of the TypedDict classes the types artifact    *)
(* declares.  utils.py looks at a type through typing only, and a type is  *)
(* modelled by what typing shows of it: its class, get_origin, get_args,   *)
(* and for a TypedDict class get_type_hints (the hints by key, in the      *)
(* order of the dict, or the exception get_type_hints raises when an       *)
(* annotation of the class cannot be resolved) and __required_keys__ in    *)
(* the order the frozenset iterates.  A value is its class and its repr,   *)
(* with the items of a dict.                                               *)
(***************************************************************************)
PyType(cls, origin, args, name, value, iterable, parts, type_hints, required_keys) ==
    [cls |-> cls, origin |-> origin, args |-> args, name |-> name,
     value |-> value, iterable |-> iterable, parts |-> parts,
     type_hints |-> type_hints, required_keys |-> required_keys]

\* a class: int, float, str, bool, NoneType, Any; and None itself, which is
\* no class for get_type_hints
PyClass(c) ==
    PyType(c, "None", <<>>, c, <<>>, FALSE, <<>>,
           IF c = "None" THEN Raise("TypeError") ELSE Ok(<<>>), <<>>)
\* List[..], Dict[..], Union[..], Tuple[..], Literal[..]
Generic(origin, args) ==
    PyType("generic", origin, args, origin, <<>>, FALSE, <<>>, Raise("TypeError"), <<>>)
\* an argument of Literal[..]: a value, of a class, with a repr
LiteralArg(c, repr) ==
    PyType(c, "value", <<>>, repr, <<>>, FALSE, <<>>, Raise("TypeError"), <<>>)
\* a member of an Enum class: its class, its repr, its value, whether it
\* can be gone through (a member that is a str, bytes or a Flag can, a
\* member that is an int or a plain member cannot) and what going through
\* it gives: the characters of a str, the flags of a Flag
EnumMember(c, repr, value, iterable, parts) ==
    PyType(c, "value", <<>>, repr, <<value>>, iterable, parts, Raise("TypeError"), <<>>)
\* isinstance(items, Enum): of the values, the members have a value
IsEnum(items) == items.origin = "value" /\ items.value # <<>>
\* a TypedDict class: its name, get_type_hints of it, __required_keys__
TypedDictClass(name, type_hints, required_keys) ==
    PyType("TypedDict", "None", <<>>, name, <<>>, FALSE, <<>>, type_hints,
           required_keys)

Val(py, repr, items) == [py |-> py, repr |-> repr, items |-> items]
V_None == Val("NoneType", "None", <<>>)

\* MissingValue(typ)
MissingValue(typ) == Val("MissingValue", typ.name, <<>>)

\* atomic_types, keyed by class
atomic_types ==
    << <<"int", Val("int", "0", <<>>)>>,
       <<"float", Val("float", "0.0", <<>>)>>,
       <<"str", Val("str", "''", <<>>)>>,
       <<"bool", Val("bool", "False", <<>>)>>,
       <<"None", V_None>>,
       <<"NoneType", V_None>> >>

\* atomic_types.get(typ)
AtomicGet(typ) ==
    IF typ.origin = "None" /\ HasKey(atomic_types, typ.cls)
    THEN DictGet(atomic_types, typ.cls)
    ELSE V_None

\* type_hints has the key
HasHint(type_hints, key) == \E i \in DOMAIN type_hints : type_hints[i].key = key

\* type_hints[key]
TypeHint(type_hints, key) ==
    type_hints[CHOOSE i \in DOMAIN type_hints : type_hints[i].key = key].type

\* repr of a list of values, from the reprs of the values
RECURSIVE ListRepr(_, _)
ListRepr(values, i) ==
    IF i > Len(values) THEN "]"
    ELSE (IF i = 1 THEN "[" ELSE ", ") \o values[i].name \o ListRepr(values, i + 1)

\* _get_valueset_default: [i.value for i in items] goes through the member
\* itself, which not every member allows, and asks every element for its
\* value
get_valueset_default(typ) ==
    IF typ.args = <<>> THEN Raise("IndexError")
    ELSE IF typ.origin # "list" \/ ~IsEnum(typ.args[1]) THEN Raise("ValueError")
    ELSE IF ~typ.args[1].iterable THEN Raise("TypeError")
    ELSE IF \E i \in DOMAIN typ.args[1].parts : typ.args[1].parts[i].value = <<>>
    THEN Raise("AttributeError")
    ELSE IF typ.args[1].parts = <<>> THEN Ok(Val("list", "[]", <<>>))
    ELSE Ok(Val("list",
                ListRepr([i \in DOMAIN typ.args[1].parts |->
                            typ.args[1].parts[i].value[1]], 1),
                <<>>))

\* a record field that is not expanded raises, whatever was asked
typeddict_field_refused(typ, recursive, expanded) ==
    IF ~recursive THEN Raise("ValueError") ELSE expanded

\* the is_typeddict branch of _get_type_default
typeddict_field_default(typ, recursive, expanded) ==
    IF ~recursive THEN Ok(MissingValue(typ)) ELSE expanded

RECURSIVE get_type_default(_, _, _)
RECURSIVE get_typeddict_default(_, _, _)
RECURSIVE TypedDictItems(_, _, _, _, _, _)

\* an argument of Literal[..] as a value
LiteralValue(arg) ==
    IF arg.origin = "None" /\ arg.cls = "None" THEN V_None
    ELSE Val(arg.cls, arg.name, <<>>)

\* _get_type_default
get_type_default(typ, only_required, recursive) ==
    IF AtomicGet(typ) # V_None THEN Ok(AtomicGet(typ))
    ELSE IF typ.origin = "list" THEN Ok(Val("list", "[]", <<>>))
    ELSE IF typ.origin = "dict" THEN Ok(Val("dict", "{}", <<>>))
    ELSE IF typ.origin = "Union"
    THEN get_type_default(typ.args[1], only_required, recursive)
    ELSE IF typ.origin \in {"Literal", "LiteralString"}
    THEN Ok(LiteralValue(typ.args[1]))
    ELSE IF typ.cls = "TypedDict"
    THEN typeddict_field_default(typ, recursive,
                                 get_typeddict_default(typ, only_required, recursive))
    ELSE Raise("ValueError")

\* the loop of _get_typeddict_default from the i-th key on
TypedDictItems(type_hints, keys, i, data, only_required, recursive) ==
    IF i > Len(keys) THEN Ok(Val("dict", "", data))
    ELSE IF ~HasHint(type_hints, keys[i]) THEN Raise("KeyError")
    ELSE LET hint == TypeHint(type_hints, keys[i])
             v == IF keys[i] = "valueSet" THEN get_valueset_default(hint)
                  ELSE get_type_default(hint, only_required, recursive)
         IN  IF ~v.ok THEN v
             ELSE TypedDictItems(type_hints, keys, i + 1,
                                 Append(data, <<keys[i], v.val>>),
                                 only_required, recursive)

\* the keys _get_typeddict_default goes through
DefaultKeys(typ, only_required) ==
    IF only_required THEN typ.required_keys
    ELSE [i \in DOMAIN typ.type_hints.val |-> typ.type_hints.val[i].key]

\* _get_typeddict_default: get_type_hints(typ) comes first and its
\* exception leaves the call; only a TypedDict class has __required_keys__
get_typeddict_default(typ, only_required, recursive) ==
    LET type_hints == typ.type_hints
    IN  IF ~type_hints.ok THEN type_hints
        ELSE IF only_required /\ typ.cls # "TypedDict" THEN Raise("AttributeError")
        ELSE TypedDictItems(type_hints.val, DefaultKeys(typ, only_required), 1, <<>>,
                            only_required, recursive)

\* get_default_value(typ, only_required=.., recursive=..)
get_default_value(typ, only_required, recursive) ==
    get_typeddict_default(typ, only_required, recursive)

(***************************************************************************)
(* Bounds, and the metamodels the generator is run on.                     *)
(***************************************************************************)
\* the define_name frames the interpreter allows when generate.py is run as
\* a script (Python: the recursion limit of 1000 less the frames below
\* ordered_names and the two of re.compile, 992), taken modulo 12: the
\* cycles of the metamodels below have 1 to 4 members and the order of a
\* cycle repeats with the number of its members
RecLimit == 8
\* the frames a read of types_code may find: the caller is generate.main
\* itself, or one or two calls deeper
Limits == {RecLimit - 2, RecLimit - 1, RecLimit}
\* artifact reads per run: generate.main reads the three artifacts
MaxReads == 3
\* of them, reads that come before the call of generate()
MaxEarlyReads == 1
\* fields of a TypedDict class that is asked for its default value
MaxFields == 2

N_Aa == <<"A","a">>
N_Bb == <<"B","b">>
N_Cc == <<"C","c">>
N_T  == <<"T">>
\* a name no metamodel below defines
N_Zz == <<"Z","z">>

Structure(n, extends, mixins, properties) ==
    [name |-> n, extends |-> extends, mixins |-> mixins, properties |-> properties]

TypeAlias(n, t) == [name |-> n, type |-> t]

Enumeration(n, t, values) == [name |-> n, type |-> t, values |-> values]

Request(method, typeName, params, result, direction) ==
    [method |-> method, typeName |-> typeName, params |-> params,
     result |-> result, messageDirection |-> direction]

Notification(method, typeName, params, direction) ==
    [method |-> method, typeName |-> typeName, params |-> params,
     messageDirection |-> direction]

MetaModel(structures, enumerations, typeAliases, requests, notifications) ==
    [structures |-> structures, enumerations |-> enumerations,
     typeAliases |-> typeAliases, requests |-> requests,
     notifications |-> notifications]

Directions == {"clientToServer", "serverToClient", "both"}

\* Metamodels that vary the mixins of three structures.
MixinChoices ==
    {<<>>, <<RefT(N_Aa)>>, <<RefT(N_Bb)>>, <<RefT(N_T)>>, <<RefT(N_Zz)>>,
     <<RefT(N_Bb), RefT(N_T)>>, <<RefT(N_T), RefT(N_Aa)>>}

MixinModels ==
    {MetaModel(<<Structure(N_Aa, <<>>, ma, pa),
                 Structure(N_Bb, <<>>, mb, <<Property(<<"b">>, BaseT(S_string), FALSE)>>),
                 Structure(N_T, <<>>, mt, <<Property(<<"t">>, BaseT(S_integer), TRUE)>>)>>,
               <<>>, <<>>, <<>>, <<>>) :
        ma \in MixinChoices, mb \in {<<>>, <<RefT(N_Aa)>>, <<RefT(N_T)>>},
        mt \in {<<>>, <<RefT(N_Aa)>>, <<RefT(N_Zz)>>},
        pa \in {<<>>, <<Property(<<"a">>, RefT(N_T), FALSE),
                        Property(<<"i","d">>, BaseT(S_string), FALSE)>>}}

\* What one structure says of the others: nothing, a parent, or a field.
Links(names, listed) ==
    {[extends |-> <<>>, properties |-> <<>>]}
    \cup {[extends |-> <<RefT(n)>>, properties |-> <<>>] : n \in names}
    \cup {[extends |-> <<>>,
           properties |-> <<Property(<<"f">>,
                                      IF listed THEN ArrayT(RefT(n)) ELSE RefT(n),
                                      FALSE)>>] : n \in names}

Linked(n, link) == Structure(n, link.extends, <<>>, link.properties)

\* Metamodels that vary the references among three structures.
OrderModels ==
    {MetaModel(<<Linked(N_Aa, la), Linked(N_Bb, lb), Linked(N_T, lt)>>,
               <<>>, <<>>, <<>>, <<>>) :
        la \in Links({N_Aa, N_Bb, N_T}, FALSE)
               \cup {[extends |-> <<RefT(N_Bb), RefT(N_T)>>, properties |-> <<>>]},
        lb \in Links({N_Aa, N_Bb, N_T}, FALSE),
        lt \in Links({N_Aa}, TRUE)}

\* Types of every kind of the tagged union.
TypePool ==
    {BaseT(S_string), BaseT(S_uinteger), BaseT(S_null),
     RefT(N_Aa), RefT(N_T), RefT(N_Cc), RefT(S_LSPObject),
     ArrayT(RefT(N_Cc)),
     MapT(BaseT(S_URI), RefT(N_Aa)),
     AndT(<<RefT(N_Aa), RefT(N_T)>>),
     OrT(<<RefT(N_T), BaseT(S_null)>>),
     TupleT(<<BaseT(S_integer), BaseT(S_decimal)>>),
     LiteralT(<<>>),
     LiteralT(<<Property(<<"k">>, BaseT(S_string), FALSE)>>),
     LiteralT(<<Property(<<"k">>, BaseT(S_string), FALSE),
                Property(<<"v">>, RefT(N_Aa), TRUE)>>),
     StringLitT(N_Aa), StringLitT(<<"i","t","'","s">>),
     IntegerLitT(0 - 12), BooleanLitT(TRUE)}

\* Metamodels that vary a type alias and the references to and from it.
AliasModels ==
    {MetaModel(<<Linked(N_Aa, la), Linked(N_T, lt)>>,
               <<>>, <<TypeAlias(N_Cc, t)>>, <<>>, <<>>) :
        la \in {[extends |-> <<>>, properties |-> <<>>],
                [extends |-> <<RefT(N_T)>>, properties |-> <<>>],
                [extends |-> <<>>,
                 properties |-> <<Property(<<"f">>, RefT(N_Cc), FALSE)>>]},
        lt \in {[extends |-> <<>>, properties |-> <<>>],
                [extends |-> <<>>,
                 properties |-> <<Property(<<"f">>, RefT(N_Cc), TRUE)>>]},
        t \in TypePool}

M_q  == <<"x","/","q">>
M_r  == <<"x","/","r">>
M_n  == <<"$","/","n">>
T_Ho == <<"H","o">>
T_G2O == <<"G","2","O">>
T_DidOp == <<"D","i","d","O","p">>

KindEnum ==
    Enumeration(<<"K","d">>, BaseT(S_string),
                <<[name |-> <<"O","n">>, value |-> [kind |-> "int", v |-> 1]],
                  [name |-> <<"E","s","c">>, value |-> [kind |-> "str", v |-> <<"e">>]]>>)

\* Metamodels that vary the messages: one request, one notification and an
\* optional second request, over two structures, an enumeration and LSPAny.
MessageModels ==
    {MetaModel(<<Structure(N_Aa, <<>>, <<>>, <<>>), Structure(N_T, <<>>, <<>>, <<>>)>>,
               <<KindEnum>>,
               <<TypeAlias(S_LSPAny, BaseT(S_string))>>,
               <<Request(M_q, T_Ho, p, r, d)>> \o more,
               <<Notification(M_n, T_DidOp, np, nd)>>) :
        p \in {NoType, ArrayT(RefT(N_T)), StringLitT(N_Aa)},
        r \in {RefT(N_Aa), OrT(<<BaseT(S_uinteger), BaseT(S_null)>>)},
        d \in Directions,
        more \in {<<>>} \cup {<<Request(M_r, T_G2O, RefT(N_T), RefT(N_Aa), d2)>> :
                                 d2 \in {"serverToClient", "both"}},
        np \in {RefT(N_Aa), BaseT(S_uinteger)},
        nd \in Directions}

(***************************************************************************)
(* The types utils.py is asked about.  The TypedDict classes have one to   *)
(* MaxFields fields of every kind of type, the first one named a or        *)
(* valueSet, any of them NotRequired, __required_keys__ in any order, or   *)
(* an annotation get_type_hints cannot resolve.  The emitted classes       *)
(* postpone their annotations (from __future__ import annotations), so     *)
(* what a field is typed as is what get_type_hints makes of the text.      *)
(***************************************************************************)
P_Inner == TypedDictClass("Inner", Ok(<<[key |-> "x", type |-> PyClass("int")]>>), <<"x">>)

\* members of class Color(Enum): R = 1, of class Pm(Flag): R = 1, W = 2, of
\* class Ee(str, Enum): A = 'a', E = '', and of class Ik(int, Enum): A = 1,
\* which is what the generator emits for an integer enumeration
M_Color_R == EnumMember("Color", "<Color.R: 1>", LiteralArg("int", "1"), FALSE, <<>>)
M_Pm_R == EnumMember("Pm", "<Pm.R: 1>", LiteralArg("int", "1"), TRUE, <<>>)
M_Pm_W == EnumMember("Pm", "<Pm.W: 2>", LiteralArg("int", "2"), TRUE, <<>>)
M_Pm_RW == EnumMember("Pm", "<Pm.R|W: 3>", LiteralArg("int", "3"), TRUE,
                      <<M_Pm_R, M_Pm_W>>)
M_Ee_A == EnumMember("Ee", "<Ee.A: 'a'>", LiteralArg("str", "'a'"), TRUE,
                     <<LiteralArg("str", "'a'")>>)
M_Ee_E == EnumMember("Ee", "<Ee.E: ''>", LiteralArg("str", "''"), TRUE, <<>>)
M_Ik_A == EnumMember("Ik", "<Ik.A: 1>", LiteralArg("int", "1"), FALSE, <<>>)

\* what get_type_hints can give for a field
FieldTypes ==
    {PyClass("int"), PyClass("float"), PyClass("str"), PyClass("bool"),
     PyClass("NoneType"), PyClass("Any"),
     Generic("list", <<PyClass("int")>>),
     Generic("list", <<M_Color_R>>),
     Generic("list", <<M_Pm_RW>>),
     Generic("dict", <<PyClass("str"), PyClass("int")>>),
     Generic("Union", <<PyClass("str"), PyClass("NoneType")>>),
     Generic("Union", <<PyClass("NoneType"), PyClass("str")>>),
     Generic("tuple", <<PyClass("int"), PyClass("int")>>),
     Generic("Literal", <<LiteralArg("str", "'a'")>>),
     P_Inner}

\* what _get_type_default can be handed besides: None itself
TypeArguments == FieldTypes \cup {PyClass("None")}

\* what _get_valueset_default can be handed besides: a list of a member that
\* is a str or an int
ValuesetArguments ==
    FieldTypes \cup {Generic("list", <<M_Ee_A>>), Generic("list", <<M_Ee_E>>),
                     Generic("list", <<M_Ik_A>>)}

\* the exceptions of get_type_hints: a name of an annotation is not bound,
\* an annotation is no expression
HintErrors == {"NameError", "SyntaxError"}

FieldKeys == <<"a", "b", "c", "d">>

\* the orders in which a set can be gone through
Orders(S) == {o \in [1..Cardinality(S) -> S] : Range(o) = S}

\* the keys of a class of n fields
KeysOf(n, first) == [i \in 1..n |-> IF i = 1 THEN first ELSE FieldKeys[i]]

\* what __required_keys__ can be, in the orders it can be gone through
RequiredOrders(keys) ==
    UNION {Orders({keys[i] : i \in req}) : req \in SUBSET DOMAIN keys}

\* a call of a function of utils.py that has not returned yet
Asked(op, typ, only_required, recursive) ==
    [op |-> op, typ |-> typ, only_required |-> only_required, recursive |-> recursive,
     returned |-> FALSE, outcome |-> Raise("none")]

\* no call of utils.py
NoCall ==
    [op |-> "none", typ |-> PyClass("NoneType"), only_required |-> FALSE,
     recursive |-> FALSE, returned |-> FALSE, outcome |-> Raise("none")]

(***************************************************************************)
(* The state of a run: the metamodel (the generator holds it by reference  *)
(* and so do the callers), the CodeGenerator's fields, and what the reads  *)
(* of the artifacts returned.                                              *)
(***************************************************************************)
VARIABLES
    input,              \* the metamodel as it was handed to CodeGenerator
    model,              \* self.model, as it is now
    types,              \* self._types
    server_methods,     \* self._server.methods
    client_methods,     \* self._client.methods
    server_handle_map,  \* self._server_handle_map
    client_handle_map,  \* self._client_handle_map
    is_generated,       \* self._is_generated
    pc,                 \* "new", or how generate() ended: "done", "failed"
    error,              \* the exception generate() raised
    outs,               \* what each read returned, oldest first
    call                \* a call of a function of utils.py and what it gave

vars == <<input, model, types, server_methods, client_methods, server_handle_map,
          client_handle_map, is_generated, pc, error, outs, call>>

\* a generator that passes for generated from the start
InitWithGenerated(m) ==
    /\ input = m
    /\ model = m
    /\ types = <<>>
    /\ server_methods = <<>>
    /\ client_methods = <<>>
    /\ server_handle_map = <<>>
    /\ client_handle_map = <<>>
    /\ is_generated = TRUE
    /\ pc = "new"
    /\ error = "none"
    /\ outs = <<>>

\* CodeGenerator.__init__
InitWith(m) ==
    /\ input = m
    /\ model = m
    /\ types = <<>>
    /\ server_methods = <<>>
    /\ client_methods = <<>>
    /\ server_handle_map = <<>>
    /\ client_handle_map = <<>>
    /\ is_generated = FALSE
    /\ pc = "new"
    /\ error = "none"
    /\ outs = <<>>

Init ==
    /\ \E m \in MixinModels \cup OrderModels \cup AliasModels \cup MessageModels :
          InitWith(m)
    /\ call = NoCall

\* gen.generate(), called once on a new generator (generate.main)
Generate ==
    /\ pc = "new"
    /\ \E g \in {generate(model, types,
                          Roles(server_methods, client_methods,
                                server_handle_map, client_handle_map))} :
           /\ model' = g.model
           /\ types' = g.types
           /\ server_methods' = g.roles.server_methods
           /\ client_methods' = g.roles.client_methods
           /\ server_handle_map' = g.roles.server_handle_map
           /\ client_handle_map' = g.roles.client_handle_map
           /\ is_generated' = g.ok
           /\ pc' = IF g.ok THEN "done" ELSE "failed"
           /\ error' = g.err
    /\ UNCHANGED <<input, outs, call>>

Returned(artifact, outcome) ==
    [artifact |-> artifact, ok |-> outcome.ok, err |-> outcome.err,
     content |-> outcome.val]

\* the types_code property
ReadTypesCode ==
    /\ Len(outs) < (IF pc = "new" THEN MaxEarlyReads ELSE MaxReads)
    /\ IF ~is_generated
       THEN /\ outs' = Append(outs, Returned("types", Raise("Exception")))
            /\ UNCHANGED types
       ELSE /\ types' = base_aliases \o types
            /\ \E orderer \in {NameOrderer(types')} :
                 \E limit \in Limits :
                   outs' = Append(outs, Returned("types",
                                                 ordered_names(orderer, limit)))
    /\ UNCHANGED <<input, model, server_methods, client_methods, server_handle_map,
                   client_handle_map, is_generated, pc, error, call>>

\* the server_code property
ReadServerCode ==
    /\ Len(outs) < (IF pc = "new" THEN MaxEarlyReads ELSE MaxReads)
    /\ IF ~is_generated
       THEN /\ outs' = Append(outs, Returned("server", Raise("Exception")))
            /\ UNCHANGED server_methods
       ELSE /\ server_methods' = Append(server_methods,
                                        handle_function(server_handle_map))
            /\ LET cls == ClassOf(S_Server, <<>>, <<>>, server_methods')
               IN  outs' = Append(outs, Returned("server",
                             Ok([imports |-> resolve(<<cls>>, types), class |-> cls])))
    /\ UNCHANGED <<input, model, types, client_methods, server_handle_map,
                   client_handle_map, is_generated, pc, error, call>>

\* the client_code property
ReadClientCode ==
    /\ Len(outs) < (IF pc = "new" THEN MaxEarlyReads ELSE MaxReads)
    /\ IF ~is_generated
       THEN /\ outs' = Append(outs, Returned("client", Raise("Exception")))
            /\ UNCHANGED client_methods
       ELSE /\ client_methods' = Append(client_methods,
                                        handle_function(client_handle_map))
            /\ LET cls == ClassOf(S_Client, <<>>, <<>>, client_methods')
               IN  outs' = Append(outs, Returned("client",
                             Ok([imports |-> resolve(<<cls>>, types), class |-> cls])))
    /\ UNCHANGED <<input, model, types, server_methods, server_handle_map,
                   client_handle_map, is_generated, pc, error, call>>

Next == Generate \/ ReadTypesCode \/ ReadServerCode \/ ReadClientCode

Spec == Init /\ [][Next]_vars

(***************************************************************************)
(* A program that uses utils.py on the types of the types artifact: one    *)
(* call of get_default_value on a TypedDict class, or of a method of a     *)
(* TypedDictValue on a type.                                               *)
(***************************************************************************)
DefaultsInit ==
    /\ InitWith(MetaModel(<<>>, <<>>, <<>>, <<>>, <<>>))
    /\ \/ \E n \in 1..MaxFields, first \in {"a", "valueSet"} :
            \E ts \in [1..n -> FieldTypes], order \in RequiredOrders(KeysOf(n, first)),
               o \in BOOLEAN, r \in BOOLEAN :
              call = Asked("get_default_value",
                           TypedDictClass("Rec",
                                          Ok([i \in 1..n |->
                                                [key |-> KeysOf(n, first)[i],
                                                 type |-> ts[i]]]),
                                          order),
                           o, r)
       \/ \E e \in HintErrors, order \in RequiredOrders(<<"a">>),
             o \in BOOLEAN, r \in BOOLEAN :
              call = Asked("get_default_value", TypedDictClass("Rec", Raise(e), order),
                           o, r)
       \/ \E typ \in TypeArguments, o \in BOOLEAN, r \in BOOLEAN :
              call = Asked("_get_type_default", typ, o, r)
       \/ \E typ \in ValuesetArguments, o \in BOOLEAN, r \in BOOLEAN :
              call = Asked("_get_valueset_default", typ, o, r)

\* get_default_value(typ, only_required=.., recursive=..)
GetDefaultValue ==
    /\ ~call.returned
    /\ call.op = "get_default_value"
    /\ call' = [call EXCEPT !.returned = TRUE,
                            !.outcome = get_default_value(call.typ, call.only_required,
                                                          call.recursive)]
    /\ UNCHANGED <<input, model, types, server_methods, client_methods,
                   server_handle_map, client_handle_map, is_generated, pc, error,
                   outs>>

\* TypedDictValue(.., only_required, recursive)._get_type_default(typ)
GetTypeDefault ==
    /\ ~call.returned
    /\ call.op = "_get_type_default"
    /\ call' = [call EXCEPT !.returned = TRUE,
                            !.outcome = get_type_default(call.typ, call.only_required,
                                                         call.recursive)]
    /\ UNCHANGED <<input, model, types, server_methods, client_methods,
                   server_handle_map, client_handle_map, is_generated, pc, error,
                   outs>>

\* TypedDictValue(.., only_required, recursive)._get_valueset_default(typ)
GetValuesetDefault ==
    /\ ~call.returned
    /\ call.op = "_get_valueset_default"
    /\ call' = [call EXCEPT !.returned = TRUE,
                            !.outcome = get_valueset_default(call.typ)]
    /\ UNCHANGED <<input, model, types, server_methods, client_methods,
                   server_handle_map, client_handle_map, is_generated, pc, error,
                   outs>>

DefaultsNext == GetDefaultValue \/ GetTypeDefault \/ GetValuesetDefault

DefaultsSpec == DefaultsInit /\ [][DefaultsNext]_vars

(***************************************************************************)
(* Properties.                                                             *)
(***************************************************************************)
Messages == [i \in 1..(Len(input.requests) + Len(input.notifications)) |->
               IF i <= Len(input.requests) THEN input.requests[i]
               ELSE input.notifications[i - Len(input.requests)]]

RequestsOf(d) ==
    {input.requests[i] : i \in {j \in DOMAIN input.requests :
                                   input.requests[j].messageDirection = d}}

NotificationsOf(d) ==
    {input.notifications[i] : i \in {j \in DOMAIN input.notifications :
                                   input.notifications[j].messageDirection = d}}

\* how many functions of a role have the name
Named(methods, n) == Cardinality({k \in DOMAIN methods : methods[k].name = n})

\* how many entries a dispatch table has for the wire method
Entries(map, m) == Cardinality({k \in DOMAIN map : map[k][1] = m})

Contains(text, sub) ==
    \E i \in 1..(Len(text) - Len(sub) + 1) : SubSeq(text, i, i + Len(sub) - 1) = sub

\* the arguments of a function after self, as <<name, annotation>> pairs
Signature(f) ==
    [i \in 1..(Len(f.arguments) - 1) |->
        <<f.arguments[i + 1].name, f.arguments[i + 1].annotation>>]

SnakeOf(msg) == to_snake_case(msg.typeName)
HandlerOf(msg) == S_handle_ \o to_snake_case(msg.typeName)

\* C1: for a request with direction clientToServer, generate() leaves on the
\* Client a sender named snake(T) taking params: compile(P), returning
\* nothing, whose body calls request with method m; in the Server dispatch
\* table the entry m -> handle_snake(T); and on the Server a handler stub
\* handle_snake(T)(context, params: compile(P)) -> compile(R).
C1_RequestToServer ==
    pc = "done" =>
      \A q \in RequestsOf("clientToServer") :
        LET sender == SnakeOf(q)
            handler == HandlerOf(q)
            params == <<S_params, <<type_(q.params).val>> >>
            result == <<type_(q.result).val>>
        IN  /\ \E k \in DOMAIN client_methods :
                  /\ client_methods[k].name = sender
                  /\ Signature(client_methods[k]) = <<params>>
                  /\ client_methods[k].annotation = <<S_None>>
                  /\ client_methods[k].body # <<>>
                  /\ Contains(client_methods[k].body[1],
                              S_self \o <<".">> \o S_request \o <<"(">> \o S_method
                              \o <<"=">> \o StrRepr(q.method))
            /\ HasKey(server_handle_map, q.method)
            /\ DictGet(server_handle_map, q.method) = handler
            /\ \E k \in DOMAIN server_methods :
                  /\ server_methods[k].name = handler
                  /\ Signature(server_methods[k]) = << <<S_context, <<S_dict>> >>, params>>
                  /\ server_methods[k].annotation = result

\* a finished run on the hover-like request: Ho, clientToServer, whose sender
\* is named "ho"
C1_Witness ==
    /\ pc = "done"
    /\ RequestsOf("clientToServer") # {}
    /\ \E k \in DOMAIN client_methods : client_methods[k].name = <<"h", "o">>
    /\ HasKey(server_handle_map, M_q)

\* C2, as the specification states it: after generate(), the entry of a message is in the
\* table of the receiving role and not in the table of the sending role.
C2_ReceiverOnly ==
    pc = "done" =>
      /\ \A msg \in RequestsOf("clientToServer") \cup NotificationsOf("clientToServer") :
            HasKey(server_handle_map, msg.method) /\ ~HasKey(client_handle_map, msg.method)
      /\ \A msg \in RequestsOf("serverToClient") \cup NotificationsOf("serverToClient") :
            HasKey(client_handle_map, msg.method) /\ ~HasKey(server_handle_map, msg.method)

\* C2, as the code has it: after generate(), a role's table holds the entry of a
\* message exactly if the role receives the message or the message is a
\* request the role sends (its result handler): a notification is entered in
\* the receiving role's table only, a request in both tables; every entry
\* names the message's handler identifier.
C2_ReceiverOrRequestSender ==
    pc = "done" =>
      LET reqs == RequestsOf("clientToServer") \cup RequestsOf("serverToClient")
                    \cup RequestsOf("both")
          toServer == NotificationsOf("clientToServer") \cup NotificationsOf("both")
          toClient == NotificationsOf("serverToClient") \cup NotificationsOf("both")
      IN  /\ Keys(server_handle_map) = {m.method : m \in reqs \cup toServer}
          /\ Keys(client_handle_map) = {m.method : m \in reqs \cup toClient}
          /\ \A m \in reqs \cup toServer :
                DictGet(server_handle_map, m.method) = HandlerOf(m)
          /\ \A m \in reqs \cup toClient :
                DictGet(client_handle_map, m.method) = HandlerOf(m)

\* a finished run with a one-way request and a one-way notification
C2_Witness ==
    /\ pc = "done"
    /\ RequestsOf("clientToServer") # {}
    /\ NotificationsOf("clientToServer") # {}
    /\ RequestsOf("both") = {}

\* C3: for every message with direction both, each role has exactly one
\* sender method, exactly one method named handle_snake(T), and exactly one
\* dispatch entry for the message's wire method.
C3_BothExactlyOne ==
    pc = "done" =>
      \A i \in DOMAIN Messages :
        Messages[i].messageDirection = "both" =>
          /\ Named(server_methods, SnakeOf(Messages[i])) = 1
          /\ Named(client_methods, SnakeOf(Messages[i])) = 1
          /\ Named(server_methods, HandlerOf(Messages[i])) = 1
          /\ Named(client_methods, HandlerOf(Messages[i])) = 1
          /\ Entries(server_handle_map, Messages[i].method) = 1
          /\ Entries(client_handle_map, Messages[i].method) = 1

\* C4: for a notification with direction both, each role gets a sender and a
\* handler stub, each role's table maps the wire method to the handler
\* identifier, every function generated for the notification returns
\* nothing, and none of them is a result handler.
C4_NotificationBoth ==
    pc = "done" =>
      \A n \in NotificationsOf("both") :
        LET sender == SnakeOf(n)
            handler == HandlerOf(n)
            params == <<S_params, <<type_(n.params).val>> >>
        IN  \A role \in {<<server_methods, server_handle_map>>,
                         <<client_methods, client_handle_map>>} :
              /\ \E k \in DOMAIN role[1] :
                    /\ role[1][k].name = sender
                    /\ Signature(role[1][k]) = <<params>>
              /\ \E k \in DOMAIN role[1] :
                    /\ role[1][k].name = handler
                    /\ Signature(role[1][k]) = << <<S_context, <<S_dict>> >>, params>>
              /\ HasKey(role[2], n.method)
              /\ DictGet(role[2], n.method) = handler
              /\ \A k \in DOMAIN role[1] :
                    role[1][k].name \in {sender, handler} =>
                      /\ role[1][k].annotation = <<S_None>>
                      /\ \A a \in DOMAIN role[1][k].arguments :
                            role[1][k].arguments[a].name # S_result

\* a finished run whose notification DidOp goes both ways
C4_Witness ==
    /\ pc = "done"
    /\ NotificationsOf("both") # {}
    /\ \E k \in DOMAIN server_methods :
          server_methods[k].name = <<"h","a","n","d","l","e","_","d","i","d","_","o","p">>

\* the compiled definition of a structure: the Class of that name in types
ClassNamed(n) ==
    types[CHOOSE k \in DOMAIN types : types[k].cls = "Class" /\ types[k].name = n]

\* the structure of that name as the metamodel declared it
Declared(n) ==
    input.structures[CHOOSE k \in DOMAIN input.structures :
                        input.structures[k].name = n]

\* C5: for every structure S with mixins M1..Mk, the fields of S's compiled
\* definition are S's own declared properties followed by M1's own declared
\* properties, ..., Mk's own declared properties, in declared order and
\* without de-duplication; what a mixin got from its own mixins is not there.
C5_MixinOwnProperties ==
    pc = "done" =>
      \A i \in DOMAIN input.structures :
        LET S == input.structures[i]
            declared == S.properties
                        \o Flatten([k \in DOMAIN S.mixins |->
                                      Declared(S.mixins[k].name).properties])
        IN  ClassNamed(S.name).variables =
              [k \in DOMAIN declared |-> property(declared[k]).val]

\* every identifier of a text, of any length
Identifiers(text) == FindAllFrom(text, 1, 1)

\* the names a definition refers to: its parents and the identifiers of its
\* field annotations, or the identifiers of the expression an alias is bound to
References(d) ==
    IF d.cls = "Class"
    THEN Range(d.parents)
         \cup UNION {Range(Identifiers(d.variables[k].annotation[1])) :
                       k \in {j \in DOMAIN d.variables : d.variables[j].annotation # <<>>}}
    ELSE IF d.value # <<>> THEN Range(Identifiers(d.value[1])) ELSE {}

\* the names reachable from a set of names through references, in n steps
RECURSIVE ReachableFrom(_, _, _)
ReachableFrom(S, defs, n) ==
    IF n = 0 THEN S
    ELSE ReachableFrom(S \cup UNION {References(defs[k]) :
                                       k \in {j \in DOMAIN defs : defs[j].name \in S}},
                       defs, n - 1)

InCycle(d, defs) == d.name \in ReachableFrom(References(d), defs, Len(defs))

\* C6: in what ordered_names() returns, every definition that is not part of
\* a reference cycle comes after every definition it references, whatever
\* the length of the referenced name.
C6_ReferencesFirst ==
    \A r \in DOMAIN outs :
      (outs[r].artifact = "types" /\ outs[r].ok) =>
        LET order == outs[r].content
        IN  \A i \in DOMAIN order, j \in DOMAIN order :
              (/\ order[j].name \in References(order[i])
               /\ ~InCycle(order[i], order)) => j < i

\* a text with its string literals blanked out
RECURSIVE OutsideStrings(_, _, _)
OutsideStrings(text, i, quote) ==
    IF i > Len(text) THEN <<>>
    ELSE IF quote = ""
    THEN IF text[i] \in {"'", "\""}
         THEN <<" ">> \o OutsideStrings(text, i + 1, text[i])
         ELSE <<text[i]>> \o OutsideStrings(text, i + 1, "")
    ELSE IF text[i] = "\\" THEN OutsideStrings(text, i + 2, quote)
    ELSE IF text[i] = quote THEN <<" ">> \o OutsideStrings(text, i + 1, "")
    ELSE OutsideStrings(text, i + 1, quote)

\* the names an annotation uses as types
TypeNames(ann) ==
    IF ann = <<>> THEN <<>> ELSE Identifiers(OutsideStrings(ann[1], 1, ""))

\* the type names of a dispatcher class in the order they are met: the
\* methods in order, each one's arguments and then its return annotation
DispatcherTypeNames(cls) ==
    Flatten([k \in DOMAIN cls.methods |->
               Flatten([a \in DOMAIN cls.methods[k].arguments |->
                          TypeNames(cls.methods[k].arguments[a].annotation)])
               \o TypeNames(cls.methods[k].annotation)])

\* C7: the import list resolve() returns for a dispatcher class is the
\* defined names the class references as types, each once, in the order
\* they are first met: none is missing and nothing else is in it.
C7_ImportsExact ==
    (/\ outs # <<>>
     /\ outs[Len(outs)].artifact \in {"server", "client"}
     /\ outs[Len(outs)].ok) =>
       LET read == outs[Len(outs)].content
           defined == {types[k].name : k \in DOMAIN types}
           IsDefined(n) == n \in defined
       IN  read.imports = Dedup(SelectSeq(DispatcherTypeNames(read.class), IsDefined))

\* C8: type_() returns a type expression for every Type, an inline anonymous
\* record with any number of properties included; generate() never fails in it.
C8_TypeTotal ==
    pc # "new" =>
      /\ error # "TypeError"
      /\ \A i \in DOMAIN input.typeAliases : type_(input.typeAliases[i].type).ok

\* C9: a types read of a generated generator never raises, whatever cycles
\* the definitions have, and returns each distinct definition name once.
C9_OrdererTolerant ==
    \A r \in DOMAIN outs :
      (outs[r].artifact = "types" /\ outs[r].err # "Exception") =>
        /\ outs[r].ok
        /\ \A i \in DOMAIN outs[r].content, j \in DOMAIN outs[r].content :
              outs[r].content[i].name = outs[r].content[j].name => i = j
        /\ {outs[r].content[i].name : i \in DOMAIN outs[r].content}
             = {types[k].name : k \in DOMAIN types}

\* C10, as the specification states it: the parents of a structure's compiled definition are its
\* compiled extends list, in declared order; with no extends there are none.
C10_ParentsAreExtends ==
    pc = "done" =>
      \A i \in DOMAIN input.structures :
        ClassNamed(input.structures[i].name).parents =
          [k \in DOMAIN input.structures[i].extends |->
             type_(input.structures[i].extends[k]).val]

\* C10, as the code has it: the parents of a structure's compiled definition are its
\* compiled extends list, in declared order, when the list is not empty, and
\* the single base TypedDict when it is.
C10_ParentsOrTypedDict ==
    pc = "done" =>
      \A i \in DOMAIN input.structures :
        ClassNamed(input.structures[i].name).parents =
          IF input.structures[i].extends = <<>>
          THEN <<S_TypedDict>>
          ELSE [k \in DOMAIN input.structures[i].extends |->
                  type_(input.structures[i].extends[k]).val]

\* a finished run with a structure that extends two others, in the declared
\* order Bb, T, and a structure that extends nothing
C10_Witness ==
    /\ pc = "done"
    /\ \E i \in DOMAIN input.structures :
          /\ input.structures[i].extends = <<RefT(N_Bb), RefT(N_T)>>
          /\ ClassNamed(input.structures[i].name).parents = <<N_Bb, N_T>>
    /\ \E i \in DOMAIN input.structures :
          /\ input.structures[i].extends = <<>>
          /\ ClassNamed(input.structures[i].name).parents = <<S_TypedDict>>

\* C11: generate() leaves the metamodel as it found it: after it returns,
\* every structure has the own-property list it had before the call.
C11_GeneratePure ==
    pc = "done" =>
      \A i \in DOMAIN input.structures :
        model.structures[i].properties = input.structures[i].properties

\* C12: as long as generate() has not run to completion (it was not called,
\* or it raised), every read of types_code, server_code or client_code has
\* failed and returned no content.
C12_NoPartialArtifact ==
    pc # "done" =>
      \A r \in DOMAIN outs :
        /\ ~outs[r].ok
        /\ outs[r].err = "Exception"
        /\ outs[r].content = <<>>

\* generate() was aborted by a mixin that names no structure, definitions
\* were already built, and the artifacts were read as often as a run reads
C12_Witness ==
    /\ pc = "failed"
    /\ error = "KeyError"
    /\ types # <<>>
    /\ Len(outs) = MaxReads
    /\ \E r \in DOMAIN outs : outs[r].artifact = "types"
    /\ \E r \in DOMAIN outs : outs[r].artifact = "server"


\* where a name is first declared in the list handed to NameOrderer
DeclaredAt(names, n) ==
    CHOOSE k \in DOMAIN names :
      names[k].name = n /\ \A j \in 1..(k - 1) : names[j].name # n

\* everything a definition references, directly or through other definitions
Reaches(d, defs) == ReachableFrom(References(d), defs, Len(defs))

\* neither definition references the other, directly or transitively
Unrelated(a, b, defs) ==
    /\ a.name # b.name
    /\ b.name \notin Reaches(a, defs)
    /\ a.name \notin Reaches(b, defs)

\* the last read was a read of the types that returned an order; the list
\* NameOrderer was given is then the definition list as it is now
TypesJustOrdered ==
    /\ outs # <<>>
    /\ outs[Len(outs)].artifact = "types"
    /\ outs[Len(outs)].ok

DispatcherJustRead ==
    /\ outs # <<>>
    /\ outs[Len(outs)].artifact \in {"server", "client"}
    /\ outs[Len(outs)].ok

\* the dispatch table of the role whose class the last read emitted
TableJustRead ==
    IF outs[Len(outs)].artifact = "server" THEN server_handle_map
    ELSE client_handle_map

\* the dispatcher module just read, and lsprotocol.py as the last read of
\* types_code returned it
TypesReads == {i \in DOMAIN outs : outs[i].artifact = "types" /\ outs[i].ok}
LsprotocolRead == outs[CHOOSE i \in TypesReads : \A j \in TypesReads : j <= i].content

\* keyword.kwlist
PyKeywords ==
    {
     <<"F","a","l","s","e">>, <<"N","o","n","e">>, <<"T","r","u","e">>,
     <<"a","n","d">>, <<"a","s">>, <<"a","s","s","e","r","t">>,
     <<"a","s","y","n","c">>, <<"a","w","a","i","t">>,
     <<"b","r","e","a","k">>, <<"c","l","a","s","s">>,
     <<"c","o","n","t","i","n","u","e">>, <<"d","e","f">>, <<"d","e","l">>,
     <<"e","l","i","f">>, <<"e","l","s","e">>, <<"e","x","c","e","p","t">>,
     <<"f","i","n","a","l","l","y">>, <<"f","o","r">>, <<"f","r","o","m">>,
     <<"g","l","o","b","a","l">>, <<"i","f">>, <<"i","m","p","o","r","t">>,
     <<"i","n">>, <<"i","s">>, <<"l","a","m","b","d","a">>,
     <<"n","o","n","l","o","c","a","l">>, <<"n","o","t">>, <<"o","r">>,
     <<"p","a","s","s">>, <<"r","a","i","s","e">>,
     <<"r","e","t","u","r","n">>, <<"t","r","y">>, <<"w","h","i","l","e">>,
     <<"w","i","t","h">>, <<"y","i","e","l","d">>}

\* an identifier that is no keyword
IsIdentifier(text) ==
    /\ text # <<>>
    /\ IsIdentStart(text[1])
    /\ \A i \in DOMAIN text : IsWord(text[i])
    /\ text \notin PyKeywords

\* the names the statements below read: builtins, and what lsprotocol.py
\* imports from enum and typing
NamesRead ==
    {S_int, S_float, S_str, S_bool, S_dict, S_None, S_Enum, S_List, S_Dict,
     S_Union, S_Tuple, S_Literal, S_TypeAlias, S_TypedDict, S_NotRequired}

\* a name a statement can bind without changing what another statement
\* reads
IsPlainName(text) ==
    /\ IsIdentifier(text)
    /\ text[1] # "_"
    /\ text \notin NamesRead

\* a str literal or an int literal, as repr writes them
IsLiteral(text) ==
    /\ text # <<>>
    /\ \/ /\ Len(text) > 1
          /\ text[1] \in {"'", "\""}
          /\ text[Len(text)] = text[1]
       \/ /\ text[Len(text)] \in Range(DigitSeq)
          /\ \A i \in DOMAIN text :
                text[i] \in Range(DigitSeq) \/ (i = 1 /\ text[i] = "-")

\* a statement of lsprotocol.py that Python executes whatever the
\* statements before it bound, and that binds its name: an alias of a
\* builtin class or None, a TypedDict class without fields, or a class
\* Name(str, Enum) whose members have distinct names that start with an
\* upper-case letter and literals as values (str accepts any of them)
IsPlainDefinition(d) ==
    /\ IsPlainName(d.name)
    /\ \/ /\ d.cls = "Variable"
          /\ d.annotation = <<S_TypeAlias>>
          /\ d.value # <<>>
          /\ d.value[1] \in {S_int, S_float, S_str, S_bool, S_None}
       \/ /\ d.cls = "Class"
          /\ d.parents = <<S_TypedDict>>
          /\ d.variables = <<>>
       \/ /\ d.cls = "Class"
          /\ d.parents = <<S_str, S_Enum>>
          /\ \A i \in DOMAIN d.variables :
                /\ IsIdentifier(d.variables[i].name)
                /\ IsUpper(d.variables[i].name[1])
                /\ d.variables[i].annotation = <<>>
                /\ d.variables[i].value # <<>>
                /\ IsLiteral(d.variables[i].value[1])
                /\ \A j \in DOMAIN d.variables :
                      d.variables[j].name = d.variables[i].name => j = i

\* the annotations a def statement evaluates
Annotations(f) ==
    {f.arguments[a].annotation[1] :
        a \in {b \in DOMAIN f.arguments : f.arguments[b].annotation # <<>>}}
    \cup {f.annotation[k] : k \in DOMAIN f.annotation}

\* a package that surely imports: lsprotocol.py was written and all its
\* statements are plain; the dispatcher module imports at least one name
\* from it and only names it binds; every method has an identifier as its
\* name, one that names no special method, and every annotation (server.py
\* and client.py evaluate them when the def runs) is an imported name or
\* one of dict, None, str, int, float, bool
PlainPackageRead ==
    /\ DispatcherJustRead
    /\ TypesReads # {}
    /\ \A i \in DOMAIN LsprotocolRead : IsPlainDefinition(LsprotocolRead[i])
    /\ LET module == outs[Len(outs)].content
       IN  /\ module.imports # <<>>
           /\ \A i \in DOMAIN module.imports :
                 \E j \in DOMAIN LsprotocolRead :
                    LsprotocolRead[j].name = module.imports[i]
           /\ \A k \in DOMAIN module.class.methods :
                 /\ IsIdentifier(module.class.methods[k].name)
                 /\ module.class.methods[k].name[1] # "_"
                 /\ Annotations(module.class.methods[k])
                      \subseteq Range(module.imports)
                                \cup {S_dict, S_None, S_str, S_int, S_float, S_bool}

\* C14: handle(method, payload) of the class of an emitted dispatcher module
\* that was imported fails with a lookup failure for a method that is not in
\* the role's dispatch table, and for a method that is in the table it
\* invokes the bound handler, which receives the payload as its params or
\* result argument.  Checked on the packages that surely import.
C14_HandleDispatches ==
    PlainPackageRead =>
      LET imported == Ok(outs[Len(outs)].content.class)
      IN  \A m \in {M_q, M_r, M_n} :
            LET run == handle(imported, TableJustRead, m, <<"p">>)
            IN  IF HasKey(TableJustRead, m)
                THEN /\ run.ok
                     /\ run.val.handler = DictGet(TableJustRead, m)
                     /\ \E i \in DOMAIN run.val.bound :
                           /\ run.val.bound[i][1] \in {S_params, <<"r","e","s","u","l","t">>}
                           /\ run.val.bound[i][2] = <<"p">>
                ELSE ~run.ok /\ run.err = "KeyError"

\* C15: once generate() has completed, a read of an artifact leaves the
\* definition list, both method lists and both dispatch tables as they were,
\* two reads of the same artifact return the same content, and no role has
\* more than one handle entry point.
C15_ReadsFrozen ==
    [][is_generated =>
         /\ UNCHANGED <<types, server_methods, client_methods,
                        server_handle_map, client_handle_map>>
         /\ \A r \in DOMAIN outs' : \A s \in DOMAIN outs' :
               outs'[r].artifact = outs'[s].artifact =>
                 outs'[r].content = outs'[s].content
         /\ Named(server_methods', S_handle) <= 1
         /\ Named(client_methods', S_handle) <= 1]_vars

\* a text with "_" put where a lower-case letter is followed by an
\* upper-case letter, and nowhere else
RECURSIVE SeparatedAtLowerUpper(_, _)
SeparatedAtLowerUpper(text, i) ==
    IF i > Len(text) THEN <<>>
    ELSE (IF i > 1 /\ IsUpper(text[i]) /\ text[i - 1] \in Range(LowerSeq)
          THEN <<"_", text[i]>>
          ELSE <<text[i]>>)
         \o SeparatedAtLowerUpper(text, i + 1)

\* C16: the method identifier to_snake_case makes of a message's typeName is
\* the typeName with a separator at each place where a lower-case letter is
\* followed by an upper-case letter and nowhere else, in lower case; the
\* handler a dispatch table names for the message is handle_ followed by
\* that identifier.
C16_SnakeAtLowerUpper ==
    pc = "done" =>
      \A i \in DOMAIN Messages :
        /\ to_snake_case(Messages[i].typeName)
             = Lower(SeparatedAtLowerUpper(Messages[i].typeName, 1))
        /\ HasKey(server_handle_map, Messages[i].method) =>
             DictGet(server_handle_map, Messages[i].method)
               = S_handle_ \o to_snake_case(Messages[i].typeName)
        /\ HasKey(client_handle_map, Messages[i].method) =>
             DictGet(client_handle_map, Messages[i].method)
               = S_handle_ \o to_snake_case(Messages[i].typeName)

\* a call of get_default_value that went past get_type_hints, the keys it
\* goes through, and their types
HintsResolved == call.op = "get_default_value" /\ call.typ.type_hints.ok
AskedKeys == DefaultKeys(call.typ, call.only_required)
AskedHint(k) == TypeHint(call.typ.type_hints.val, AskedKeys[k])

\* int, float, str, bool or the null type (None, NoneType), or a Union whose
\* first member is the null type
IsNull(t) == t.origin = "None" /\ t.cls \in {"None", "NoneType"}
IsAtomicType(t) ==
    \/ t.origin = "None" /\ t.cls \in {"int", "float", "str", "bool"}
    \/ IsNull(t)
    \/ t.origin = "Union" /\ IsNull(t.args[1])

\* what the table lists for the class
TableDefault(t) ==
    DictGet(atomic_types, IF t.origin = "Union" THEN t.args[1].cls ELSE t.cls)

\* C17: _get_type_default returns, for every atomic type (int, float, str,
\* bool, the null type, or a Union whose first member is the null type), the
\* default the table lists for it: 0, 0.0, '', False, None; it does not
\* fail for any of them.
C17_AtomicDefaults ==
    (/\ call.returned
     /\ call.op = "_get_type_default"
     /\ IsAtomicType(call.typ)) =>
       call.outcome = Ok(TableDefault(call.typ))

\* a tuple type or Any: no branch of _get_type_default takes it
IsUnhandledType(t) == t.origin = "tuple" \/ (t.origin = "None" /\ t.cls = "Any")

\* a nested record
IsRecord(t) == t.origin = "None" /\ t.cls = "TypedDict"

\* C18, as the specification states it: a call with recursive=False that goes
\* through a field whose type is a nested record fails.
C18_NestedRecordFails ==
    (/\ call.returned
     /\ HintsResolved
     /\ ~call.recursive
     /\ \E k \in DOMAIN AskedKeys : IsRecord(AskedHint(k))) =>
       ~call.outcome.ok

\* C18, as the code has it: get_default_value fails when a field it goes
\* through is typed as a tuple or as Any, shapes no branch of
\* _get_type_default handles: _get_type_default raises ValueError for them,
\* and no call that went through such a field returns a value.  A nested
\* record is not such a shape: with recursive=False _get_type_default
\* returns the MissingValue placeholder of the record class for it, and in
\* every value get_default_value returns with recursive=False each
\* nested-record field it went through holds that placeholder.
C18_NestedRecordIsPlaceholder ==
    call.returned =>
      /\ (call.op = "_get_type_default" /\ IsUnhandledType(call.typ))
           => call.outcome = Raise("ValueError")
      /\ (call.op = "get_default_value" /\ call.outcome.ok)
           => \A k \in DOMAIN AskedKeys : ~IsUnhandledType(AskedHint(k))
      /\ (call.op = "_get_type_default" /\ IsRecord(call.typ) /\ ~call.recursive)
           => call.outcome = Ok(MissingValue(call.typ))
      /\ (call.op = "get_default_value" /\ call.outcome.ok /\ ~call.recursive)
           => \A k \in DOMAIN AskedKeys :
                 IsRecord(AskedHint(k)) =>
                   call.outcome.val.items[k]
                     = <<AskedKeys[k], MissingValue(AskedHint(k))>>

\* a call with recursive=False on a class of two fields, a nested record and
\* a string, that returned the placeholder and ''
C18_Witness ==
    /\ call.returned
    /\ HintsResolved
    /\ ~call.recursive
    /\ call.outcome.ok
    /\ Len(AskedKeys) = 2
    /\ AskedHint(1) = P_Inner
    /\ call.outcome.val.items[1] = <<"a", Val("MissingValue", "Inner", <<>>)>>
    /\ call.outcome.val.items[2] = <<"b", Val("str", "''", <<>>)>>

\* C19: when generate() has returned and no artifact has been read yet,
\* every entry m -> h of a role's dispatch table names a function of the
\* role's method list, and no two functions of a role's method list have the
\* same name.
C19_EntriesBackedByOneHandler ==
    (pc = "done" /\ outs = <<>>) =>
      /\ \A e \in DOMAIN server_handle_map :
            Named(server_methods, server_handle_map[e][2]) >= 1
      /\ \A e \in DOMAIN client_handle_map :
            Named(client_methods, client_handle_map[e][2]) >= 1
      /\ \A k \in DOMAIN server_methods : Named(server_methods, server_methods[k].name) = 1
      /\ \A k \in DOMAIN client_methods : Named(client_methods, client_methods[k].name) = 1

\* the definition list as generate() left it: each read of the types put the
\* base aliases in front of it once more
TypesAsGenerated ==
    LET earlier == Cardinality({r \in DOMAIN outs :
                                  outs[r].artifact = "types" /\ outs[r].ok})
    IN  SubSeq(types, earlier * Len(base_aliases) + 1, Len(types))

\* C20: the import list a read of server_code or client_code returns is the
\* one the same read returns when no read of types_code came before it, also
\* when the params or result of a message name a base scalar alias.
C20_ImportsIndependentOfReads ==
    DispatcherJustRead =>
      outs[Len(outs)].content.imports
        = resolve(<<outs[Len(outs)].content.class>>, TypesAsGenerated)

\* what NameOrderer returns for the definition list as it is now under
\* each number of frames a read can find
OrdersUnderLimits ==
    {ordered_names(orderer, limit) : orderer \in {NameOrderer(types)}, limit \in Limits}

\* C21: for a definition list with a reference cycle through field
\* annotations or alias values, the order ordered_names() returned under the
\* recursion bound of the read is the order it returns under every other
\* bound: the bound at which the escape fires does not show in the output.
C21_OrderIndependentOfLimit ==
    (/\ TypesJustOrdered
     /\ \E k \in DOMAIN outs[Len(outs)].content :
           InCycle(outs[Len(outs)].content[k], outs[Len(outs)].content)) =>
       \A order \in OrdersUnderLimits :
          order.ok => outs[Len(outs)].content = order.val
=============================================================================
